---- MODULE Spec2Model ----
(***************************************************************************)
(* Model of scripts/backup-monitor.py: the BackupMonitor object, its       *)
(* monitoring loop (start), the per-category evaluation                    *)
(* (_check_backup_type), the health aggregation (is_healthy), the alert    *)
(* evaluation (_check_alerts) and the /health reader (HealthHandler).      *)
(*                                                                         *)
(* Time is counted in quarters of an hour, so that an age in hours has two *)
(* decimals and the ':.1f' formatting of an alert really rounds.           *)
(***************************************************************************)
EXTENDS Integers, Sequences, FiniteSets, TLC

\* ---------------------------------------------------------------- bounds
\* How many quarter-hours the wall clock may advance during a run.
MaxTicks == 1
\* How many daily backup files the directory may hold.
MaxFiles == 2

\* ------------------------------------------------------- program constants
\* age_hours divides seconds by 3600; the model counts 4 time units an hour.
UnitsPerHour == 4
\* CONFIG['max_backup_age_hours'], default 25
max_backup_age_hours == 25
\* CONFIG['check_interval'], default 300
check_interval == 300
\* time.sleep(30) of the loop's except branch
retry_delay == 30
\* float('inf')
Infinity == 1000000
\* None
None == -1
\* backup_types of _check_backup_status
backup_types == <<"daily", "weekly", "monthly">>

Categories == {backup_types[i] : i \in 1..Len(backup_types)}

\* The age threshold in time units.
MaxAge == max_backup_age_hours * UnitsPerHour
\* The first clock reading of a run: a backup made at time 0 is then exactly
\* max_backup_age_hours old.
ClockStart == MaxAge
ClockValues == ClockStart..(ClockStart + MaxTicks)
\* Modification times of the files on disk.
MTimes == {0, 1}

\* ------------------------------------------------------------ file system
\* How many files of a backup type the directory may hold: up to MaxFiles
\* daily backups, and one weekly and one monthly backup.
MaxFilesOf(backup_type) == IF backup_type = "daily" THEN MaxFiles ELSE 1

\* A directory entry as glob returns it: its path, and what stat() gives for
\* it. stat_ok = FALSE: stat() raises OSError (the file has vanished, or may
\* not be read) and gives no time and no size. The n-th file of a backup
\* type is n bytes long.
FilesOf(backup_type) ==
    {[path |-> <<backup_type, n>>, st_mtime |-> m, st_size |-> n, stat_ok |-> TRUE] :
        n \in 1..MaxFilesOf(backup_type), m \in MTimes}
    \cup
    {[path |-> <<backup_type, n>>, st_mtime |-> None, st_size |-> None, stat_ok |-> FALSE] :
        n \in 1..MaxFilesOf(backup_type)}

\* What list(backup_dir.glob(pattern)) may return: any sequence of entries
\* with distinct paths, in any order.
ListingsOf(backup_type) ==
    {s \in UNION {[1..n -> FilesOf(backup_type)] : n \in 0..MaxFilesOf(backup_type)} :
        \A i, j \in 1..Len(s) : i # j => s[i].path # s[j].path}

AllListings == [c \in Categories |-> ListingsOf(c)]

Listings(backup_type) == AllListings[backup_type]

\* ------------------------------------------------ the dict backup_status
\* A Python dict keeps insertion order: a sequence of [key, value] items.
DictKeys(d) == {d[i].key : i \in 1..Len(d)}

DictHas(d, k) == \E i \in 1..Len(d) : d[i].key = k

DictGet(d, k) == d[CHOOSE i \in 1..Len(d) : d[i].key = k].value

\* Mutant of DictSet: a new key is put in front of the others.
DictSetInFront(d, k, v) ==
    IF DictHas(d, k)
    THEN [i \in 1..Len(d) |-> IF d[i].key = k THEN [key |-> k, value |-> v] ELSE d[i]]
    ELSE <<[key |-> k, value |-> v]>> \o d

\* d[k] = v: an existing key keeps its position, a new key is appended.
DictSet(d, k, v) ==
    IF DictHas(d, k)
    THEN [i \in 1..Len(d) |-> IF d[i].key = k THEN [key |-> k, value |-> v] ELSE d[i]]
    ELSE Append(d, [key |-> k, value |-> v])

\* ----------------------------------------------------- _check_backup_type
\* max(backup_files, key=lambda f: f.stat().st_mtime): the first entry, in
\* listing order, whose key is the greatest.
RECURSIVE MaxByMtime(_, _, _)
MaxByMtime(files, i, best) ==
    IF i > Len(files) THEN best
    ELSE MaxByMtime(files, i + 1,
                    IF files[i].st_mtime > best.st_mtime THEN files[i] ELSE best)

\* Mutant of SumSizes: only the newest file is counted.
SumSizesNewestOnly(files, i) ==
    MaxByMtime(files, 2, files[1]).st_size

RECURSIVE SumSizes(_, _)
SumSizes(files, i) ==
    IF i > Len(files) THEN 0 ELSE files[i].st_size + SumSizes(files, i + 1)

\* The value a call may end with instead of returning: an OSError from stat().
OSError == [raised |-> "OSError"]

Raised(r) == "raised" \in DOMAIN r

\* Mutant of Classify: an age equal to the threshold counts as stale.
ClassifyAtThreshold(age_hours) ==
    IF age_hours >= MaxAge THEN "stale" ELSE "healthy"

Classify(age_hours) ==
    IF age_hours > MaxAge THEN "stale" ELSE "healthy"

\* _check_backup_type on the listing backup_files, with datetime.now() = now.
\* stat() is called on every entry (by max, then by sum): one unreadable
\* entry raises out of the function.
CheckBackupType(backup_files, now) ==
    IF Len(backup_files) = 0
    THEN [status |-> "missing", last_backup |-> None, file_count |-> 0,
          total_size |-> 0, age_hours |-> Infinity]
    ELSE IF \E i \in 1..Len(backup_files) : ~backup_files[i].stat_ok
    THEN OSError
    ELSE LET latest_backup == MaxByMtime(backup_files, 2, backup_files[1])
             last_backup_time == latest_backup.st_mtime
             age_hours == now - last_backup_time
         IN  [status |-> Classify(age_hours),
              last_backup |-> last_backup_time,
              file_count |-> Len(backup_files),
              total_size |-> SumSizes(backup_files, 1),
              age_hours |-> age_hours,
              latest_file |-> latest_backup.path]

\* ------------------------------------------------------------ is_healthy
\* Mutant of is_healthy: the test for the empty dict is left out.
is_healthy_no_empty_test(status_dict) ==
    \A i \in 1..Len(status_dict) :
        status_dict[i].value.status \notin {"missing", "stale"}

is_healthy(status_dict) ==
    IF Len(status_dict) = 0 THEN FALSE
    ELSE \A i \in 1..Len(status_dict) :
            status_dict[i].value.status \notin {"missing", "stale"}

\* --------------------------------------------------------- _check_alerts
Digits == <<"0", "1", "2", "3", "4", "5", "6", "7", "8", "9">>

\* f"{age_hours:.1f}" for an age of q quarter-hours: x.00 -> x.0, x.25 -> x.2,
\* x.50 -> x.5, x.75 -> x.8 (the quarters are exact in binary, and printf
\* rounds an exact half to the even digit).
FormatAge(q) ==
    LET n == 10 * (q % UnitsPerHour)
        d == n \div UnitsPerHour
        r == n % UnitsPerHour
        tenth == IF 2 * r > UnitsPerHour THEN d + 1
                 ELSE IF 2 * r = UnitsPerHour THEN d + (d % 2)
                 ELSE d
    IN  ToString(q \div UnitsPerHour) \o "." \o Digits[tenth + 1]

AlertFor(backup_type, status) ==
    IF status.status = "missing"
    THEN <<"No " \o backup_type \o " backups found">>
    ELSE IF status.status = "stale"
    THEN <<backup_type \o " backup is " \o FormatAge(status.age_hours) \o " hours old">>
    ELSE <<>>

\* The loop over self.backup_status.items(), in the dict's order.
RECURSIVE BuildAlerts(_, _)
BuildAlerts(status_dict, i) ==
    IF i > Len(status_dict) THEN <<>>
    ELSE AlertFor(status_dict[i].key, status_dict[i].value)
         \o BuildAlerts(status_dict, i + 1)

\* ------------------------------------------------------------------ state
VARIABLES
    running,               \* self.running
    backup_status,         \* self.backup_status
    last_check,            \* self.last_check
    enable_notifications,  \* CONFIG['enable_notifications']
    clock,                 \* the latest reading of datetime.now()
    pc,                    \* where the monitoring loop of start() stands
    idx,                   \* the index of the for loop of _check_backup_status
    dir_exists,            \* backup_dir.exists() as this cycle saw it
    exc,                   \* the backup type whose evaluation raised in this cycle
    alerts,                \* the list _check_alerts built in this cycle
    sends,                 \* the calls of _send_alerts in this cycle
    sleep_secs,            \* the argument of the time.sleep in progress
    metrics,               \* how the _update_metrics call just made ended
    transports,            \* how the transports of the _send_alerts call just made ended
    written                \* per backup type: when its record was last stored

vars == <<running, backup_status, last_check, enable_notifications, clock, pc,
          idx, dir_exists, exc, alerts, sends, sleep_secs, metrics, transports,
          written>>

\* No transport was called.
NoTransport == [slack |-> "idle", email |-> "idle"]

\* datetime.now(): not before the latest reading.
ClockReads == {t \in ClockValues : t >= clock /\ t <= clock + 1}

\* BackupMonitor.__init__, and the process before start() enters its loop.
Init ==
    /\ running = TRUE
    /\ backup_status = <<>>
    /\ last_check = None
    /\ enable_notifications \in BOOLEAN
    /\ clock = ClockStart
    /\ pc = "while"
    /\ idx = 0
    /\ dir_exists = TRUE
    /\ exc = "none"
    /\ alerts = <<>>
    /\ sends = 0
    /\ sleep_secs = 0
    /\ metrics = "none"
    /\ transports = NoTransport
    /\ written = [c \in Categories |-> "never"]

\* ------------------------------------------------------- the loop of start
\* Mutant of LoopTest: the loop does not look at self.running.
LoopTestIgnoresRunning ==
    /\ pc = "while"
    /\ pc' = "check_backup_status"
    /\ dir_exists' = TRUE
    /\ exc' = "none"
    /\ alerts' = <<>>
    /\ sends' = 0
    /\ UNCHANGED <<running, backup_status, last_check, enable_notifications,
                   clock, idx, sleep_secs, metrics, transports, written>>

\* while self.running: a new cycle begins, or the loop ends.
LoopTest ==
    /\ pc = "while"
    /\ pc' = IF running THEN "check_backup_status" ELSE "done"
    /\ dir_exists' = TRUE
    /\ exc' = "none"
    /\ alerts' = <<>>
    /\ sends' = 0
    /\ UNCHANGED <<running, backup_status, last_check, enable_notifications,
                   clock, idx, sleep_secs, metrics, transports, written>>

\* _check_backup_status up to its for loop: the clock is read into
\* last_check; a missing backup directory ends the method at once.
CheckBackupStatusBegin ==
    /\ pc = "check_backup_status"
    /\ \E now \in ClockReads, exists \in BOOLEAN :
          /\ last_check' = now
          /\ clock' = now
          /\ dir_exists' = exists
          /\ pc' = IF exists THEN "for" ELSE "update_metrics"
          /\ idx' = IF exists THEN 1 ELSE 0
    /\ written' = [c \in Categories |->
                      IF written[c] = "current" THEN "earlier" ELSE written[c]]
    /\ UNCHANGED <<running, backup_status, enable_notifications, exc, alerts,
                   sends, sleep_secs, metrics, transports>>

\* What _check_backup_type may end with for a backup type when the clock
\* reads now: its results over all the listings glob may return.
Evaluations ==
    [c \in Categories |->
        [now \in ClockValues |-> {CheckBackupType(f, now) : f \in Listings(c)}]]

\* The rest of one iteration of the for loop, once _check_backup_type has
\* ended with status: the record is stored, or an OSError leaves the loop and
\* the method for the except branch of start(). The clock was read (as now)
\* only if there were files and their stat succeeded.
StoreStatus(backup_type, status, now) ==
    /\ pc = "for"
    /\ backup_type = backup_types[idx]
    /\ IF Raised(status)
       THEN /\ pc' = "except"
            /\ exc' = backup_type
            /\ idx' = 0
            /\ UNCHANGED <<backup_status, written, clock>>
       ELSE /\ backup_status' = DictSet(backup_status, backup_type, status)
            /\ written' = [written EXCEPT ![backup_type] = "current"]
            /\ clock' = IF status.status = "missing" THEN clock ELSE now
            /\ pc' = IF idx = Len(backup_types) THEN "update_metrics" ELSE "for"
            /\ idx' = IF idx = Len(backup_types) THEN 0 ELSE idx + 1
            /\ UNCHANGED exc
    /\ UNCHANGED <<running, last_check, enable_notifications, dir_exists, alerts,
                   sends, sleep_secs, metrics, transports>>

\* One iteration of the for loop on backup_type when glob returns
\* backup_files and the clock reads now.
CheckBackupTypeStep(backup_type, backup_files, now) ==
    StoreStatus(backup_type, CheckBackupType(backup_files, now), now)

\* One iteration of the for loop, over every listing glob may return.
CheckBackupStatusLoop ==
    /\ pc = "for"
    /\ \E now \in ClockReads :
          \E status \in Evaluations[backup_types[idx]][now] :
              StoreStatus(backup_types[idx], status, now)

\* How a call of _update_metrics may end: "skipped" when the Prometheus
\* client is not available, "updated" when the gauges were set, "error" when
\* setting them raised and the except clause of the method logged it.
MetricsOutcomes == {"skipped", "updated", "error"}

\* Mutant of UpdateMetrics: an error of the gauges leaves the method.
UpdateMetricsErrorEscapes ==
    /\ pc = "update_metrics"
    /\ \E outcome \in MetricsOutcomes :
          /\ metrics' = outcome
          /\ pc' = IF outcome = "error" THEN "except" ELSE "check_alerts"
          /\ exc' = IF outcome = "error" THEN "update_metrics" ELSE exc
    /\ UNCHANGED <<running, backup_status, last_check, enable_notifications,
                   clock, idx, dir_exists, alerts, sends, sleep_secs,
                   transports, written>>

\* _update_metrics: it only writes gauges of the metrics exporter, which no
\* code of the monitor reads, and it catches every error itself.
UpdateMetrics ==
    /\ pc = "update_metrics"
    /\ \E outcome \in MetricsOutcomes : metrics' = outcome
    /\ pc' = "check_alerts"
    /\ UNCHANGED <<running, backup_status, last_check, enable_notifications,
                   clock, idx, dir_exists, exc, alerts, sends, sleep_secs,
                   transports, written>>

\* How a transport of _send_alerts may end: "skipped" when it is not
\* configured (no slack_webhook_url, no admin_email), "sent", or "failed" when
\* sending raised and the except clause of the transport logged it.
TransportOutcomes == {"skipped", "sent", "failed"}

\* _send_alerts: the Slack transport, then the e-mail transport, each ending
\* on its own.
SendAlerts == {[slack |-> s, email |-> e] : s, e \in TransportOutcomes}

\* Mutant of CheckAlerts: _send_alerts is called whatever the list holds.
CheckAlertsAlwaysSends ==
    /\ pc = "check_alerts"
    /\ IF ~enable_notifications
       THEN /\ UNCHANGED <<alerts, sends>>
            /\ transports' = NoTransport
       ELSE /\ alerts' = BuildAlerts(backup_status, 1)
            /\ sends' = sends + 1
            /\ transports' \in SendAlerts
    /\ pc' = "sleep"
    /\ metrics' = "none"
    /\ UNCHANGED <<running, backup_status, last_check, enable_notifications,
                   clock, idx, dir_exists, exc, sleep_secs, written>>

\* Mutant of CheckAlerts: an error of the Slack transport leaves _send_alerts.
CheckAlertsSlackRaises ==
    /\ pc = "check_alerts"
    /\ IF ~enable_notifications
       THEN /\ UNCHANGED <<alerts, sends, exc>>
            /\ transports' = NoTransport
            /\ pc' = "sleep"
       ELSE /\ alerts' = BuildAlerts(backup_status, 1)
            /\ IF alerts' # <<>>
               THEN /\ sends' = sends + 1
                    /\ \E o \in SendAlerts :
                          IF o.slack = "failed"
                          THEN /\ transports' = [slack |-> "failed", email |-> "idle"]
                               /\ pc' = "except"
                               /\ exc' = "send_alerts"
                          ELSE /\ transports' = o
                               /\ pc' = "sleep"
                               /\ UNCHANGED exc
               ELSE /\ sends' = sends
                    /\ transports' = NoTransport
                    /\ pc' = "sleep"
                    /\ UNCHANGED exc
    /\ metrics' = "none"
    /\ UNCHANGED <<running, backup_status, last_check, enable_notifications,
                   clock, idx, dir_exists, sleep_secs, written>>

\* Mutant of CheckAlerts: CONFIG['enable_notifications'] is not looked at.
CheckAlertsIgnoresFlag ==
    /\ pc = "check_alerts"
    /\ alerts' = BuildAlerts(backup_status, 1)
    /\ IF alerts' # <<>>
       THEN /\ sends' = sends + 1
            /\ transports' \in SendAlerts
       ELSE /\ sends' = sends
            /\ transports' = NoTransport
    /\ pc' = "sleep"
    /\ metrics' = "none"
    /\ UNCHANGED <<running, backup_status, last_check, enable_notifications,
                   clock, idx, dir_exists, exc, sleep_secs, written>>

\* Mutant of CheckAlerts: alerts about records no cycle has renewed are held
\* back as already sent.
CheckAlertsOnlyFreshRecords ==
    /\ pc = "check_alerts"
    /\ IF ~enable_notifications
       THEN /\ UNCHANGED <<alerts, sends>>
            /\ transports' = NoTransport
       ELSE /\ alerts' = BuildAlerts(backup_status, 1)
            /\ IF alerts' # <<>> /\ \E c \in Categories : written[c] = "current"
               THEN /\ sends' = sends + 1
                    /\ transports' \in SendAlerts
               ELSE /\ sends' = sends
                    /\ transports' = NoTransport
    /\ pc' = "sleep"
    /\ metrics' = "none"
    /\ UNCHANGED <<running, backup_status, last_check, enable_notifications,
                   clock, idx, dir_exists, exc, sleep_secs, written>>

\* _check_alerts, with the call of _send_alerts it makes.
CheckAlerts ==
    /\ pc = "check_alerts"
    /\ IF ~enable_notifications
       THEN /\ UNCHANGED <<alerts, sends>>
            /\ transports' = NoTransport
       ELSE /\ alerts' = BuildAlerts(backup_status, 1)
            /\ IF alerts' # <<>>
               THEN /\ sends' = sends + 1
                    /\ transports' \in SendAlerts
               ELSE /\ sends' = sends
                    /\ transports' = NoTransport
    /\ pc' = "sleep"
    /\ metrics' = "none"
    /\ UNCHANGED <<running, backup_status, last_check, enable_notifications,
                   clock, idx, dir_exists, exc, sleep_secs, written>>

\* time.sleep(CONFIG['check_interval']) begins.
Sleep ==
    /\ pc = "sleep"
    /\ sleep_secs' = check_interval
    /\ pc' = "sleeping"
    /\ transports' = NoTransport
    /\ UNCHANGED metrics
    /\ UNCHANGED <<running, backup_status, last_check, enable_notifications,
                   clock, idx, dir_exists, exc, alerts, sends, written>>

\* Mutant of ExceptHandler: the error ends the loop.
ExceptHandlerLeavesLoop ==
    /\ pc = "except"
    /\ sleep_secs' = 0
    /\ pc' = "done"
    /\ UNCHANGED <<metrics, transports>>
    /\ UNCHANGED <<running, backup_status, last_check, enable_notifications,
                   clock, idx, dir_exists, exc, alerts, sends, written>>

\* except Exception: the error is logged and time.sleep(30) begins.
ExceptHandler ==
    /\ pc = "except"
    /\ sleep_secs' = retry_delay
    /\ pc' = "sleeping"
    /\ UNCHANGED <<metrics, transports>>
    /\ UNCHANGED <<running, backup_status, last_check, enable_notifications,
                   clock, idx, dir_exists, exc, alerts, sends, written>>

\* time.sleep returns: back to the loop test.
Wake ==
    /\ pc = "sleeping"
    /\ sleep_secs' = 0
    /\ pc' = "while"
    /\ UNCHANGED <<metrics, transports>>
    /\ UNCHANGED <<running, backup_status, last_check, enable_notifications,
                   clock, idx, dir_exists, exc, alerts, sends, written>>

\* BackupMonitor.stop(), called from outside the loop.
Stop ==
    /\ pc # "done"
    /\ running
    /\ running' = FALSE
    /\ UNCHANGED <<backup_status, last_check, enable_notifications, clock, pc,
                   idx, dir_exists, exc, alerts, sends, sleep_secs, metrics,
                   transports, written>>

\* signal_handler: stop(), then sys.exit(0), whose SystemExit no except
\* clause of start() catches: the loop is left wherever it stands.
SignalHandler ==
    /\ pc # "done"
    /\ running' = FALSE
    /\ pc' = "done"
    /\ idx' = 0
    /\ sleep_secs' = 0
    /\ metrics' = "none"
    /\ transports' = NoTransport
    /\ UNCHANGED <<backup_status, last_check, enable_notifications, clock,
                   dir_exists, exc, alerts, sends, written>>

Monitor ==
    \/ LoopTest
    \/ CheckBackupStatusBegin
    \/ CheckBackupStatusLoop
    \/ UpdateMetrics
    \/ CheckAlerts
    \/ Sleep
    \/ ExceptHandler
    \/ Wake

Next ==
    \/ Monitor
    \/ Stop
    \/ SignalHandler

Spec == Init /\ [][Next]_vars

\* The loop thread is scheduled as long as the process lives.
FairSpec == Spec /\ WF_vars(Monitor)

\* ----------------------------------------------------- the /health reader
\* health_data of HealthHandler.do_GET, read from the monitor's fields.
health_data ==
    [status |-> IF is_healthy(backup_status) THEN "healthy" ELSE "unhealthy",
     last_check |-> last_check,
     backup_status |-> backup_status]

\* ================================================================ claims

StatusRecords == {backup_status[i].value : i \in 1..Len(backup_status)}

\* C1: every record in the store is classified by exactly one rule: missing
\* iff it counts no file, stale iff it counts files and its age exceeds the
\* threshold, healthy iff it counts files and its age is at most the
\* threshold; a missing record has an infinite age and a total size of 0.
C1_Classification ==
    \A r \in StatusRecords :
        /\ r.status \in {"missing", "stale", "healthy"}
        /\ (r.status = "missing") <=> (r.file_count = 0)
        /\ (r.status = "stale") <=> (r.file_count > 0 /\ r.age_hours > MaxAge)
        /\ (r.status = "healthy") <=> (r.file_count > 0 /\ r.age_hours <= MaxAge)
        /\ (r.status = "missing") => (r.age_hours = Infinity /\ r.total_size = 0)

\* The store holds a missing record, a stale one, and a healthy one whose
\* age is exactly the threshold.
C1_Witness ==
    /\ \E r \in StatusRecords : r.status = "missing"
    /\ \E r \in StatusRecords : r.status = "stale"
    /\ \E r \in StatusRecords : r.status = "healthy" /\ r.age_hours = MaxAge

\* C2: is_healthy() is true iff the store is not empty and every record in
\* it is healthy.
C2_IsHealthy ==
    is_healthy(backup_status)
        <=> (/\ Len(backup_status) > 0
             /\ \A r \in StatusRecords : r.status = "healthy")

\* is_healthy() answers true on a full store.
C2_Witness ==
    /\ Len(backup_status) = Len(backup_types)
    /\ is_healthy(backup_status)

AllConfiguredHealthy(status_dict) ==
    \A c \in Categories :
        DictHas(status_dict, c) /\ DictGet(status_dict, c).status = "healthy"

\* C3: a /health read reports healthy only if every configured category has
\* a healthy record.
C3_FailClosed ==
    (health_data.status = "healthy") => AllConfiguredHealthy(health_data.backup_status)

\* C4: after _check_backup_status of a cycle that found no backup
\* directory, every configured category is stored as missing and
\* is_healthy() is false.
C4_DirMissingAllMissing ==
    (pc = "update_metrics" /\ ~dir_exists)
        => /\ \A c \in Categories :
                 DictHas(backup_status, c) /\ DictGet(backup_status, c).status = "missing"
           /\ ~is_healthy(backup_status)

\* C5: the store a reader sees never holds records of the running cycle
\* beside records of an earlier cycle.
C5_NoTornRead ==
    ~(\E c1, c2 \in DictKeys(health_data.backup_status) :
          written[c1] = "current" /\ written[c2] = "earlier")

\* C6: when the evaluation of one category raised in a cycle, every other
\* category still has a record computed in that cycle.
C6_SiblingsEvaluated ==
    (exc # "none") => \A c \in Categories \ {exc} : written[c] = "current"

\* The entries of a listing whose stat() succeeds, in listing order.
Readable(backup_files) == SelectSeq(backup_files, LAMBDA f : f.stat_ok)

\* C7: when a matched file is unreadable, _check_backup_type raises nothing
\* and stores the record computed from the readable files.
C7_UnreadableExcluded ==
    [][(pc = "for") =>
        \A backup_files \in Listings(backup_types[idx]), now \in ClockValues :
            (/\ CheckBackupTypeStep(backup_types[idx], backup_files, now)
             /\ \E i \in 1..Len(backup_files) : ~backup_files[i].stat_ok)
            => /\ pc' # "except"
               /\ DictGet(backup_status', backup_types[idx])
                     = CheckBackupType(Readable(backup_files), now)]_vars

\* C8: a failed cycle does not end the loop. Whoever sleeps after a failed
\* cycle sleeps the 30 s back-off, after a successful one check_interval; the
\* loop is left only once a shutdown was requested; and after an error the
\* loop starts another cycle unless a shutdown is requested.
C8_LoopSurvives ==
    /\ [](pc = "sleeping" =>
            sleep_secs = IF exc # "none" THEN retry_delay ELSE check_interval)
    /\ [][(pc # "done" /\ pc' = "done") => ~running']_vars
    /\ (pc = "except") ~> (pc = "check_backup_status" \/ ~running)

\* The loop sleeps its back-off after a failed cycle, not asked to stop.
C8_Witness ==
    /\ pc = "sleeping"
    /\ exc # "none"
    /\ sleep_secs = retry_delay
    /\ running

\* An age of q quarter-hours with one decimal, an exact half going to the
\* even digit.
OneDecimal(q) ==
    ToString(q \div 4) \o <<".0", ".2", ".5", ".8">>[(q % 4) + 1]

\* The messages the claim expects for a store: one per category that is
\* stored and not healthy, in the order daily, weekly, monthly.
RECURSIVE ExpectedAlerts(_, _)
ExpectedAlerts(status_dict, order) ==
    IF order = <<>> THEN <<>>
    ELSE LET c == Head(order)
             msg == IF ~DictHas(status_dict, c) THEN <<>>
                    ELSE IF DictGet(status_dict, c).status = "missing"
                    THEN <<"No " \o c \o " backups found">>
                    ELSE IF DictGet(status_dict, c).status = "stale"
                    THEN <<c \o " backup is "
                           \o OneDecimal(DictGet(status_dict, c).age_hours)
                           \o " hours old">>
                    ELSE <<>>
         IN  msg \o ExpectedAlerts(status_dict, Tail(order))

\* C9: the list _check_alerts built holds one message for each category that
\* is not healthy and none for a healthy one, in the order daily, weekly,
\* monthly: "No <category> backups found" for a missing category and
\* "<category> backup is <age> hours old" for a stale one.
C9_AlertSequence ==
    (enable_notifications /\ pc = "sleep")
        => alerts = ExpectedAlerts(backup_status, <<"daily", "weekly", "monthly">>)

\* _check_alerts built a message for a missing and one for a stale category
\* and none for the healthy one between them.
C9_Witness ==
    /\ pc = "sleep"
    /\ alerts = <<"No daily backups found", "monthly backup is 25.2 hours old">>
    /\ DictGet(backup_status, "weekly").status = "healthy"

\* C10: in every cycle _send_alerts is called once if the list of alerts
\* built in that cycle is not empty, and not at all if it is empty.
C10_DispatchOnce ==
    /\ sends \in {0, 1}
    /\ (sends = 1) <=> (alerts # <<>>)

\* A cycle has dispatched its alerts.
C10_Witness ==
    /\ pc = "sleep"
    /\ sends = 1
    /\ alerts # <<>>

\* The listings of a backup type whose stat() calls all succeed.
ReadableListings(c) ==
    {f \in Listings(c) : Len(f) > 0 /\ \A i \in 1..Len(f) : f[i].stat_ok}

\* The sum of the sizes of the entries of a listing.
TotalSize(backup_files) ==
    LET RECURSIVE Sum(_)
        Sum(S) == IF S = {} THEN 0
                  ELSE LET i == CHOOSE j \in S : TRUE
                       IN  backup_files[i].st_size + Sum(S \ {i})
    IN  Sum(1..Len(backup_files))

\* The record _check_backup_type returns for each readable listing of each
\* backup type at each clock reading.
RecordOf ==
    [c \in Categories |->
        [now \in ClockValues |->
            {[backup_files |-> f, status |-> CheckBackupType(f, now)] :
                f \in ReadableListings(c)}]]

\* C11: the record stored for a non-empty listing has the greatest
\* modification time of all its files as last_backup, a file of that time as
\* latest_file, the number of all its files as file_count and the sum of the
\* sizes of all its files as total_size.
C11_RecordOfAllFiles ==
    [][(pc = "for" /\ DictHas(backup_status', backup_types[idx])) =>
        LET r == DictGet(backup_status', backup_types[idx])
        IN  \A e \in RecordOf[backup_types[idx]][clock'] :
                (/\ e.status = r
                 /\ backup_status' = DictSet(backup_status, backup_types[idx], e.status))
                => LET n == Len(e.backup_files)
                   IN  /\ \A i \in 1..n : e.backup_files[i].st_mtime <= r.last_backup
                       /\ \E i \in 1..n : /\ e.backup_files[i].st_mtime = r.last_backup
                                          /\ e.backup_files[i].path = r.latest_file
                       /\ r.file_count = n
                       /\ r.total_size = TotalSize(e.backup_files)]_vars

\* The daily record counts two files and sums their sizes, and its latest
\* file is the second, newer one.
C11_Witness ==
    /\ DictHas(backup_status, "daily")
    /\ LET r == DictGet(backup_status, "daily")
       IN  /\ r.file_count = 2
           /\ r.total_size = 3
           /\ r.last_backup = 1
           /\ r.latest_file = <<"daily", 2>>

\* C12: every record stored in the running cycle has its age computed
\* against the clock reading kept in last_check.
C12_OneClockReading ==
    \A i \in 1..Len(backup_status) :
        LET r == backup_status[i].value
        IN  (written[backup_status[i].key] = "current" /\ r.file_count > 0)
                => r.age_hours = last_check - r.last_backup

\* Two listings hold the same directory entries.
SameFiles(f, g) ==
    /\ Len(f) = Len(g)
    /\ {f[i] : i \in 1..Len(f)} = {g[i] : i \in 1..Len(g)}

\* C14: the record stored for a listing is the record of every listing of
\* the same files at the same instant, in whatever order glob returns them.
C14_OrderIndependent ==
    [][(pc = "for") =>
        \A f \in ReadableListings(backup_types[idx]),
           g \in ReadableListings(backup_types[idx]), now \in ClockValues :
            (CheckBackupTypeStep(backup_types[idx], f, now) /\ SameFiles(f, g))
            => DictGet(backup_status', backup_types[idx]) = CheckBackupType(g, now)]_vars

\* C13: a failed transport leaves the store and last_check as they were,
\* does not leave _send_alerts, lets the other transport have its turn, and
\* the cycle goes on to its check_interval sleep as a successful one.
C13_TransportFailureContained ==
    /\ []((transports.slack = "failed" \/ transports.email = "failed")
            => /\ pc = "sleep"
               /\ exc = "none"
               /\ transports.slack # "idle"
               /\ transports.email # "idle")
    /\ [][(pc = "check_alerts")
            => /\ backup_status' = backup_status
               /\ last_check' = last_check
               /\ pc' \in {"check_alerts", "sleep", "done"}]_vars
    /\ [][(pc = "sleep" /\ pc' = "sleeping") => sleep_secs' = check_interval]_vars

\* The Slack transport failed and the e-mail transport sent the alerts.
C13_Witness ==
    /\ pc = "sleep"
    /\ transports = [slack |-> "failed", email |-> "sent"]

\* A cycle is in flight.
InFlight == pc \in {"check_backup_status", "for", "update_metrics", "check_alerts", "sleep"}

\* C15, as claimed: a cycle in flight is never cut off by a shutdown.
C15_CycleNeverCut ==
    [][InFlight => pc' # "done"]_vars

\* C15, amended: only the sys.exit(0) of the signal handler cuts a cycle in
\* flight; once self.running is false no new cycle begins, and the loop ends.
C15_ShutdownBetweenCycles ==
    /\ [][(InFlight /\ pc' = "done") => SignalHandler]_vars
    /\ [][(~running /\ pc = "while") => pc' # "check_backup_status"]_vars
    /\ (~running) ~> (pc = "done")

\* stop() was called and the cycle in flight has gone on to its alerts.
C15_Witness ==
    /\ ~running
    /\ pc = "sleep"
    /\ sends = 1

AllCurrent == \A c \in Categories : written[c] = "current"

NoneCurrent == \A c \in Categories : written[c] # "current"

\* C16: when a cycle is over, failed or not, the store holds the records of
\* that cycle for every category, or no record of that cycle at all.
C16_AtomicPerCycle ==
    (pc = "sleeping") => (AllCurrent \/ NoneCurrent)

\* C17: _update_metrics and _check_alerts read a store whose records were
\* all stored in the running cycle.
C17_FreshStoreRead ==
    (pc \in {"update_metrics", "check_alerts"}) => AllCurrent

\* C18: with notifications disabled _send_alerts and its transports are never
\* called, and _check_alerts leaves the store, and so is_healthy(), alone.
C18_NotificationsDisabled ==
    /\ [](~enable_notifications
            => (sends = 0 /\ alerts = <<>> /\ transports = NoTransport))
    /\ [][(pc = "check_alerts")
            => /\ backup_status' = backup_status
               /\ is_healthy(backup_status') = is_healthy(backup_status)]_vars

\* Notifications are disabled, _check_alerts has run on a store with a
\* missing category, and nothing was sent.
C18_Witness ==
    /\ ~enable_notifications
    /\ pc = "sleep"
    /\ \E r \in StatusRecords : r.status = "missing"
    /\ sends = 0

\* C19: with notifications enabled, every run of _check_alerts on a store
\* with a missing or stale category calls _send_alerts, whatever earlier
\* cycles have sent.
C19_NoDeduplication ==
    [][(/\ pc = "check_alerts"
        /\ pc' = "sleep"
        /\ enable_notifications
        /\ \E r \in StatusRecords : r.status \in {"missing", "stale"})
        => (sends' = 1 /\ alerts' # <<>>)]_vars

\* Alerts were sent again about records that an earlier cycle stored.
C19_Witness ==
    /\ pc = "sleep"
    /\ sends = 1
    /\ \A c \in Categories : written[c] = "earlier"

\* C20: an error of _update_metrics stays inside it: the store is left
\* alone, _check_alerts runs next and the cycle sleeps check_interval; and
\* after an error of _check_backup_status neither _update_metrics nor
\* _check_alerts has run in that cycle.
C20_MetricsErrorContained ==
    /\ [](metrics = "error" => (pc = "check_alerts" /\ exc = "none"))
    /\ [][(pc = "update_metrics")
            => /\ backup_status' = backup_status
               /\ last_check' = last_check
               /\ pc' \in {"update_metrics", "check_alerts", "done"}]_vars
    /\ [][(pc = "check_alerts") => pc' \in {"check_alerts", "sleep", "done"}]_vars
    /\ [][(pc = "sleep" /\ pc' = "sleeping") => sleep_secs' = check_interval]_vars
    /\ [](exc # "none"
            => /\ pc \in {"except", "sleeping", "while", "done"}
               /\ metrics = "none"
               /\ alerts = <<>>
               /\ sends = 0)

\* _update_metrics has ended on an error and _check_alerts is next.
C20_Witness ==
    /\ metrics = "error"
    /\ pc = "check_alerts"

====
